---- MODULE Spec2Model ----
(***************************************************************************)
(* Model of src/src/core/hours_calculator.py (ArgentineHoursCalculator).   *)
(*                                                                         *)
(* Units.  Every hour-valued float of the program is an integer number of  *)
(* ticks, one tick = 1/300 hour: a whole minute is 5 ticks and a hundredth *)
(* of an hour (the precision of round(x, 2)) is 3 ticks, so minutes/60 and *)
(* round(x, 2) are both exact.  Binary floating-point noise is not         *)
(* modelled.  A local naive datetime is an integer number of minutes,      *)
(* date * 1440 + minute of day, where date is a day number whose weekday   *)
(* is date % 7 (0 = Monday).                                               *)
(***************************************************************************)
EXTENDS Integers, Sequences, FiniteSets, TLC

VARIABLES
    calc,                   \* the calculator's configuration fields (self.*)
    day_summaries,          \* argument of process_employee_data
    previous_pending_hours, \* argument of process_employee_data
    pc,                     \* "loop" while iterating, "done" after return
    i,                      \* number of day records consumed by the loop
    daily_data,             \* local list of ProcessedDay
    totals,                 \* local totals dictionary
    loc,                    \* locals of the last loop iteration
    rnd,                    \* harness for redondear_extras_a_media_hora
    inv                     \* calls in flight on the same calculator: the
                            \* arguments and position of each, and the
                            \* accumulators (daily_data, totals) they own

vars == <<calc, day_summaries, previous_pending_hours, pc, i, daily_data,
          totals, loc, rnd, inv>>

----------------------------------------------------------------------------
(* Arithmetic helpers *)

Max(a, b) == IF a >= b THEN a ELSE b

Min(a, b) == IF a <= b THEN a ELSE b

MinutesPerDay == 24 * 60

\* ticks of h whole hours
H(h) == 300 * h

\* _minutos_a_horas: float(minutos) / 60.0
minutos_a_horas(minutos) == 5 * minutos

\* _horas_a_minutos: int(round(float(horas) * 60)); ticks/5 is never a tie
horas_a_minutos(horas) == (horas + 2) \div 5

\* round(x, 2) of x = m/60 hours, m whole minutes: 100*m/60 = 5m/3, never a tie
round2_of_minutes(m) == 3 * ((5 * m + 1) \div 3)

----------------------------------------------------------------------------
(* Rounding policy *)

\* variant: a remainder equal to the cut-off is discarded
redondear_corte_estricto(corte, horas) ==
    IF horas <= 0 THEN 0
    ELSE LET minutos       == horas_a_minutos(horas)
             horas_enteras == minutos \div 60
             resto         == minutos % 60
         IN  IF resto > corte THEN H(horas_enteras) + 150
                              ELSE H(horas_enteras)

\* redondear_extras_a_media_hora with the cut-off `corte`
redondear_extras_a_media_hora(corte, horas) ==
    IF horas <= 0 THEN 0
    ELSE LET minutos       == horas_a_minutos(horas)
             horas_enteras == minutos \div 60
             resto         == minutos % 60
         IN  IF resto >= corte THEN H(horas_enteras) + 150
                               ELSE H(horas_enteras)

\* _maybe_redondear_extras
maybe_redondear_extras(c, horas) ==
    IF ~c.redondear_extras THEN horas
    ELSE redondear_extras_a_media_hora(c.fragmento_minutos, horas)

----------------------------------------------------------------------------
(* Input values.                                                           *)
(* A timestamp string is [kind, date, min]: kind "naive" is an ISO string  *)
(* without zone, "utc" one ending in Z, "bad" one fromisoformat rejects,   *)
(* "none" a missing or empty value.  A slot time string is [ok, min]:      *)
(* ok = FALSE is a non-empty string that is not "H:M" integers.            *)

\* offset of America/Argentina/Buenos_Aires from UTC, in minutes
local_tz_offset == -180

NoTime == [ok |-> FALSE, t |-> 0]

\* _parse_iso_to_local: naive values are local already, zoned ones converted
parse_iso_to_local(s) ==
    CASE s.kind = "naive" -> [ok |-> TRUE, t |-> s.date * MinutesPerDay + s.min]
      [] s.kind = "utc"   -> [ok |-> TRUE,
                              t  |-> s.date * MinutesPerDay + s.min + local_tz_offset]
      [] OTHER            -> NoTime

\* the scan in _first_entry_pair_local: the first non-empty time of type typ
RECURSIVE first_iso(_, _)
first_iso(entries, typ) ==
    IF entries = <<>> THEN [kind |-> "none", date |-> 0, min |-> 0]
    ELSE IF Head(entries).type = typ /\ Head(entries).time.kind # "none"
         THEN Head(entries).time
         ELSE first_iso(Tail(entries), typ)

\* variant: an END equal to the START is left as it is
cross_midnight_strict(s_dt, e_dt) ==
    IF s_dt.ok /\ e_dt.ok /\ e_dt.t < s_dt.t
    THEN [ok |-> TRUE, t |-> e_dt.t + MinutesPerDay]
    ELSE e_dt

\* the midnight-crossing adjustment of _first_entry_pair_local
cross_midnight(s_dt, e_dt) ==
    IF s_dt.ok /\ e_dt.ok /\ e_dt.t <= s_dt.t
    THEN [ok |-> TRUE, t |-> e_dt.t + MinutesPerDay]
    ELSE e_dt

\* _first_entry_pair_local: <<s_dt, e_dt>>
first_entry_pair_local(ds) ==
    LET s_dt == parse_iso_to_local(first_iso(ds.entries, "START"))
        e_dt == parse_iso_to_local(first_iso(ds.entries, "END"))
    IN  <<s_dt, cross_midnight(s_dt, e_dt)>>

\* variant: a record without either date is imputed to the first day
\* explored instead of yielding the empty string
get_ref_str_con_fecha_por_defecto(ds) ==
    IF ds.referenceDate.kind # "none" THEN ds.referenceDate
    ELSE IF ds.date.kind # "none" THEN ds.date
    ELSE [kind |-> "date", date |-> 11]

\* _get_ref_str: referenceDate or date or ''
get_ref_str(ds) ==
    IF ds.referenceDate.kind # "none" THEN ds.referenceDate ELSE ds.date

\* _display_from_entries joined as in process_employee_data: a display
\* string "YYYY-MM-DD HH:MM" is [date, hasTime, hhmm]; without a complete
\* pair it is the reference date alone
display_from_entries(ds) ==
    LET pair == first_entry_pair_local(ds)
        ref  == get_ref_str(ds).date
    IN  IF ~(pair[1].ok /\ pair[2].ok)
        THEN <<[date |-> ref, hasTime |-> FALSE, hhmm |-> 0],
               [date |-> ref, hasTime |-> FALSE, hhmm |-> 0]>>
        ELSE <<[date |-> pair[1].t \div MinutesPerDay, hasTime |-> TRUE,
                hhmm |-> pair[1].t % MinutesPerDay],
               [date |-> pair[2].t \div MinutesPerDay, hasTime |-> TRUE,
                hhmm |-> pair[2].t % MinutesPerDay]>>

\* variant: one parsed side is enough for an interval
intervals_con_un_solo_lado(ds) ==
    LET pair == first_entry_pair_local(ds)
    IN  IF pair[1].ok \/ pair[2].ok
        THEN << [start |-> pair[1].t, end |-> pair[2].t] >>
        ELSE << >>

\* _get_intervals_from_entries
get_intervals_from_entries(ds) ==
    LET pair == first_entry_pair_local(ds)
    IN  IF pair[1].ok /\ pair[2].ok
        THEN << [start |-> pair[1].t, end |-> pair[2].t] >>
        ELSE << >>

----------------------------------------------------------------------------
(* Night window *)

\* _intersect_hours, in minutes
intersect_minutes(a_start, a_end, b_start, b_end) ==
    Max(0, Min(a_end, b_end) - Max(a_start, b_start))

RECURSIVE sum_intersections(_, _, _)
sum_intersections(intervals, n_start, n_end) ==
    IF intervals = <<>> THEN 0
    ELSE intersect_minutes(Head(intervals).start, Head(intervals).end, n_start, n_end)
         + sum_intersections(Tail(intervals), n_start, n_end)

\* variant: the window ends at hora_nocturna_fin of the reference date itself
night_hours_same_day_window(c, intervals, ref_date) ==
    LET n_start == ref_date * MinutesPerDay + c.hora_nocturna_inicio * 60
        n_end   == ref_date * MinutesPerDay + c.hora_nocturna_fin * 60
    IN  round2_of_minutes(sum_intersections(intervals, n_start, n_end))

\* _compute_night_hours_from_intervals: window anchored to the reference date
compute_night_hours_from_intervals(c, intervals, ref_date) ==
    LET n_start == ref_date * MinutesPerDay + c.hora_nocturna_inicio * 60
        n_end   == (ref_date + 1) * MinutesPerDay + c.hora_nocturna_fin * 60
    IN  round2_of_minutes(sum_intersections(intervals, n_start, n_end))

----------------------------------------------------------------------------
(* Deviations: scheduled range against the display strings.  time_range is *)
(* [present, start, end]; present = FALSE is None.                         *)

NoRange == [present |-> FALSE, start |-> [ok |-> FALSE, min |-> 0],
            end |-> [ok |-> FALSE, min |-> 0]]

\* the time_range expression of process_employee_data
time_range_of(slots) ==
    IF slots # <<>> /\ slots[1].startTime.present /\ slots[1].endTime.present
    THEN [present |-> TRUE,
          start |-> [ok |-> slots[1].startTime.ok, min |-> slots[1].startTime.min],
          end   |-> [ok |-> slots[1].endTime.ok,   min |-> slots[1].endTime.min]]
    ELSE NoRange

\* variant: the difference is returned without the clamp at zero
tardanza_sin_clamp(time_range, shift_start) ==
    IF ~time_range.present THEN 0
    ELSE IF ~time_range.start.ok THEN 0
    ELSE IF ~shift_start.hasTime THEN 0
    ELSE shift_start.hhmm - time_range.start.min

\* _calcular_tardanza_minutos
calcular_tardanza_minutos(time_range, shift_start) ==
    IF ~time_range.present THEN 0
    ELSE IF ~time_range.start.ok THEN 0
    ELSE IF ~shift_start.hasTime THEN 0
    ELSE Max(0, shift_start.hhmm - time_range.start.min)

\* _calcular_llegada_anticipada_minutos
calcular_llegada_anticipada_minutos(time_range, shift_start) ==
    IF ~time_range.present THEN 0
    ELSE IF ~time_range.start.ok THEN 0
    ELSE IF ~shift_start.hasTime THEN 0
    ELSE Max(0, time_range.start.min - shift_start.hhmm)

\* _calcular_retiro_anticipado_minutos
calcular_retiro_anticipado_minutos(time_range, shift_start, shift_end) ==
    IF ~time_range.present THEN 0
    ELSE IF ~time_range.end.ok THEN 0
    ELSE IF ~shift_end.hasTime THEN 0
    ELSE IF shift_end.date > shift_start.date THEN 0
    ELSE Max(0, time_range.end.min - shift_end.hhmm)

----------------------------------------------------------------------------
(* Overtime classification *)

\* limite_1300 = 13 * 60 in _split_extra_day_hours_at_13
limite_1300 == 13 * 60

\* variant: the two parts are returned in the opposite order
split_swapped(shift_start, shift_end, extra_day_hours) ==
    IF extra_day_hours <= 0 THEN <<0, 0>>
    ELSE IF ~shift_end.hasTime THEN <<0, 0>>
    ELSE
      LET start_min   == IF shift_start.hasTime THEN shift_start.hhmm
                                                ELSE shift_end.hhmm
          end_raw     == shift_end.hhmm
          end_min     == IF end_raw <= start_min THEN end_raw + MinutesPerDay
                                                 ELSE end_raw
          extra_min   == horas_a_minutos(extra_day_hours)
          extra_start == Max(end_min - extra_min, start_min)
          before_13   == IF extra_start < limite_1300
                         THEN Max(0, Min(end_min, limite_1300) - extra_start)
                         ELSE 0
          after_13    == IF end_min > limite_1300
                         THEN Max(0, end_min - Max(extra_start, limite_1300))
                         ELSE 0
      IN  <<minutos_a_horas(after_13), minutos_a_horas(before_13)>>

\* variant: the start of the extra block is not held at the shift start
split_sin_clamp(shift_start, shift_end, extra_day_hours) ==
    IF extra_day_hours <= 0 THEN <<0, 0>>
    ELSE IF ~shift_end.hasTime THEN <<0, 0>>
    ELSE
      LET start_min   == IF shift_start.hasTime THEN shift_start.hhmm
                                                ELSE shift_end.hhmm
          end_raw     == shift_end.hhmm
          end_min     == IF end_raw <= start_min THEN end_raw + MinutesPerDay
                                                 ELSE end_raw
          extra_min   == horas_a_minutos(extra_day_hours)
          extra_start == end_min - extra_min
          before_13   == IF extra_start < limite_1300
                         THEN Max(0, Min(end_min, limite_1300) - extra_start)
                         ELSE 0
          after_13    == IF end_min > limite_1300
                         THEN Max(0, end_min - Max(extra_start, limite_1300))
                         ELSE 0
      IN  <<minutos_a_horas(before_13), minutos_a_horas(after_13)>>

\* _split_extra_day_hours_at_13: <<before 13:00, after 13:00>> in ticks
split_extra_day_hours_at_13(shift_start, shift_end, extra_day_hours) ==
    IF extra_day_hours <= 0 THEN <<0, 0>>
    ELSE IF ~shift_end.hasTime THEN <<0, 0>>
    ELSE
      LET start_min   == IF shift_start.hasTime THEN shift_start.hhmm
                                                ELSE shift_end.hhmm
          end_raw     == shift_end.hhmm
          end_min     == IF end_raw <= start_min THEN end_raw + MinutesPerDay
                                                 ELSE end_raw
          extra_min   == horas_a_minutos(extra_day_hours)
          extra_start == Max(end_min - extra_min, start_min)
          before_13   == IF extra_start < limite_1300
                         THEN Max(0, Min(end_min, limite_1300) - extra_start)
                         ELSE 0
          after_13    == IF end_min > limite_1300
                         THEN Max(0, end_min - Max(extra_start, limite_1300))
                         ELSE 0
      IN  <<minutos_a_horas(before_13), minutos_a_horas(after_13)>>

\* variant: a bucket of exactly 1.0 hour is discarded too
descartar_hasta_una_hora(bucket) == IF bucket <= H(1) THEN 0 ELSE bucket

\* the weekday floor: a bucket under 1.0 hour is discarded
descartar_menor_a_una_hora(bucket) == IF bucket < H(1) THEN 0 ELSE bucket

\* variant: Sunday day overtime is split at 13:00 as on a Saturday
classify_sunday_as_saturday(dow, regular_hours, extra_day_hours, extra_night_hours, shift_start, shift_end) ==
    IF dow = 5 \/ dow = 6 THEN
        LET sp == split_extra_day_hours_at_13(shift_start, shift_end, extra_day_hours)
        IN  [extra50 |-> sp[1], extra100 |-> sp[2],
             extra_night_hours_50 |-> 0, extra_night_hours_100 |-> extra_night_hours]
    ELSE IF regular_hours > H(7) THEN
        [extra50 |-> descartar_menor_a_una_hora(extra_day_hours), extra100 |-> 0,
         extra_night_hours_50 |-> descartar_menor_a_una_hora(extra_night_hours),
         extra_night_hours_100 |-> 0]
    ELSE
        [extra50 |-> 0, extra100 |-> 0,
         extra_night_hours_50 |-> 0, extra_night_hours_100 |-> 0]

\* variant: a weekday with exactly 7.0 regular hours is classified too
classify_weekday_from_seven(dow, regular_hours, extra_day_hours, extra_night_hours, shift_start, shift_end) ==
    IF dow = 5 THEN
        LET sp == split_extra_day_hours_at_13(shift_start, shift_end, extra_day_hours)
        IN  [extra50 |-> sp[1], extra100 |-> sp[2],
             extra_night_hours_50 |-> 0, extra_night_hours_100 |-> extra_night_hours]
    ELSE IF dow = 6 THEN
        [extra50 |-> 0, extra100 |-> extra_day_hours,
         extra_night_hours_50 |-> 0, extra_night_hours_100 |-> extra_night_hours]
    ELSE IF regular_hours >= H(7) THEN
        [extra50 |-> descartar_menor_a_una_hora(extra_day_hours), extra100 |-> 0,
         extra_night_hours_50 |-> descartar_menor_a_una_hora(extra_night_hours),
         extra_night_hours_100 |-> 0]
    ELSE
        [extra50 |-> 0, extra100 |-> 0,
         extra_night_hours_50 |-> 0, extra_night_hours_100 |-> 0]

\* the day-of-week branch of process_employee_data:
\* [extra50, extra100, extra_night_hours_50, extra_night_hours_100]
classify_extras(dow, regular_hours, extra_day_hours, extra_night_hours, shift_start, shift_end) ==
    IF dow = 5 THEN
        LET sp == split_extra_day_hours_at_13(shift_start, shift_end, extra_day_hours)
        IN  [extra50 |-> sp[1], extra100 |-> sp[2],
             extra_night_hours_50 |-> 0, extra_night_hours_100 |-> extra_night_hours]
    ELSE IF dow = 6 THEN
        [extra50 |-> 0, extra100 |-> extra_day_hours,
         extra_night_hours_50 |-> 0, extra_night_hours_100 |-> extra_night_hours]
    ELSE IF regular_hours > H(7) THEN
        [extra50 |-> descartar_menor_a_una_hora(extra_day_hours), extra100 |-> 0,
         extra_night_hours_50 |-> descartar_menor_a_una_hora(extra_night_hours),
         extra_night_hours_100 |-> 0]
    ELSE
        [extra50 |-> 0, extra100 |-> 0,
         extra_night_hours_50 |-> 0, extra_night_hours_100 |-> 0]

----------------------------------------------------------------------------
(* One iteration of the loop of process_employee_data *)

\* str.upper() on the category names that occur
upper(name) ==
    CASE name = "regular" -> "REGULAR"
      [] name = "extra"   -> "EXTRA"
      [] OTHER            -> name

\* categorizedHours: the sum of the entries named `name` (upper-cased)
RECURSIVE sum_category(_, _)
sum_category(categorized_hours, name) ==
    IF categorized_hours = <<>> THEN 0
    ELSE (IF upper(Head(categorized_hours).name) = name
          THEN Head(categorized_hours).hours ELSE 0)
         + sum_category(Tail(categorized_hours), name)

\* float(cat_hour.get('hours', 0)) raises on a non-numeric value
hours_not_numeric(categorized_hours) ==
    \E k \in 1..Len(categorized_hours) : ~categorized_hours[k].numeric

\* 'ABSENT' in incidences
has_absence_of(ds) == \E k \in 1..Len(ds.incidences) : ds.incidences[k] = "ABSENT"

\* variant: the punches are not looked at
is_rest_day_ignoring_entries(ds) ==
    /\ ~ds.isWorkday
    /\ ds.holidays = <<>>
    /\ ds.timeOffRequests = <<>>
    /\ ~has_absence_of(ds)
    /\ ds.timeSlots = <<>>

\* the skip condition at the head of the loop body
is_empty_rest_day(ds) ==
    /\ ~ds.isWorkday
    /\ ds.holidays = <<>>
    /\ ds.timeOffRequests = <<>>
    /\ ~has_absence_of(ds)
    /\ ds.timeSlots = <<>>
    /\ ds.entries = <<>>

\* hours.worked or totalHours or 0
hours_worked_of(ds) == IF ds.worked # 0 THEN ds.worked ELSE ds.totalHours

\* variant: the early-arrival minutes are subtracted without the clamp at 0
adjust_extra_hours_sin_clamp(c, extra_cat, llegada_anticipada_mins) ==
    LET r1 == maybe_redondear_extras(c, extra_cat)
        r2 == IF c.restar_llegada_anticipada_de_horas_extras
              THEN minutos_a_horas(horas_a_minutos(r1) - llegada_anticipada_mins)
              ELSE r1
    IN  maybe_redondear_extras(c, r2)

\* extra hours after the first rounding, the early-arrival subtraction and
\* the second rounding
adjust_extra_hours(c, extra_cat, llegada_anticipada_mins) ==
    LET r1 == maybe_redondear_extras(c, extra_cat)
        r2 == IF c.restar_llegada_anticipada_de_horas_extras
              THEN minutos_a_horas(Max(0, horas_a_minutos(r1) - llegada_anticipada_mins))
              ELSE r1
    IN  maybe_redondear_extras(c, r2)

\* pending hours of the day
pending_of(c, has_time_off, has_absence, regular_hours) ==
    IF ~has_time_off /\ ~has_absence /\ regular_hours > 0
       /\ regular_hours < c.jornada_completa
    THEN c.jornada_completa - regular_hours
    ELSE 0

\* extra_night_hours = min(extra_hours, night_hours)
extra_night_of(extra_hours, night_hours) == Min(extra_hours, night_hours)

\* extra_day_hours = max(0.0, extra_hours - extra_night_hours)
extra_day_of(extra_hours, extra_night_hours) == Max(0, extra_hours - extra_night_hours)

\* get_day_of_week_spanish
get_day_of_week_spanish(date) ==
    <<"Lunes", "Martes", "Miercoles", "Jueves", "Viernes", "Sabado", "Domingo">>[(date % 7) + 1]

\* the body of the loop for a record that is not skipped and does not
\* raise: every local of the iteration, before and after the final rounding
iteration(c, ds) ==
    LET is_holiday_api  == ds.holidays # <<>>
        has_time_off    == ds.timeOffRequests # <<>>
        has_absence     == has_absence_of(ds)
        is_rest_day     == ~ds.isWorkday
        time_range      == time_range_of(ds.timeSlots)
        ref_date        == get_ref_str(ds).date
        dow             == ref_date % 7
        hours_worked    == hours_worked_of(ds)
        disp            == display_from_entries(ds)
        shift_start     == disp[1]
        shift_end       == disp[2]
        tardanza_mins   == calcular_tardanza_minutos(time_range, shift_start)
        retiro_mins     == calcular_retiro_anticipado_minutos(time_range, shift_start, shift_end)
        llegada_mins    == calcular_llegada_anticipada_minutos(time_range, shift_start)
        regular_hours   == sum_category(ds.categorizedHours, "REGULAR")
        extra_cat       == sum_category(ds.categorizedHours, "EXTRA")
        extra_hours     == adjust_extra_hours(c, extra_cat, llegada_mins)
        intervals       == get_intervals_from_entries(ds)
        night_hours     == IF intervals # <<>>
                           THEN compute_night_hours_from_intervals(c, intervals, ref_date)
                           ELSE 0
        holiday_night   == IF is_holiday_api /\ intervals # <<>>
                           THEN compute_night_hours_from_intervals(c, intervals, ref_date)
                           ELSE 0
        holiday_hours   == IF is_holiday_api /\ intervals # <<>>
                           THEN Max(0, hours_worked - holiday_night)
                           ELSE 0
        pending         == pending_of(c, has_time_off, has_absence, regular_hours)
        extra_night     == extra_night_of(extra_hours, night_hours)
        extra_day       == extra_day_of(extra_hours, extra_night)
        b               == classify_extras(dow, regular_hours, extra_day, extra_night,
                                           shift_start, shift_end)
    IN  [ \* values before the final rounding
          dow |-> dow, ref_date |-> ref_date, intervals |-> intervals,
          first_entry_pair |-> first_entry_pair_local(ds),
          extra_cat |-> extra_cat, llegada_anticipada_mins |-> llegada_mins,
          tardanza_mins |-> tardanza_mins, retiro_mins |-> retiro_mins,
          pre_night_hours |-> night_hours,
          pre_extra_day_hours |-> extra_day, pre_extra_night_hours |-> extra_night,
          pre_extra50 |-> b.extra50, pre_extra100 |-> b.extra100,
          pre_extra_night_hours_50 |-> b.extra_night_hours_50,
          pre_extra_night_hours_100 |-> b.extra_night_hours_100,
          pre_holiday_hours |-> holiday_hours, pre_holiday_night_hours |-> holiday_night,
          pending |-> pending,
          \* the ProcessedDay appended to daily_data
          day |-> [ date |-> ref_date,
                    day_of_week |-> get_day_of_week_spanish(ref_date),
                    hours_worked |-> hours_worked,
                    regular_hours |-> regular_hours,
                    extra_hours |-> extra_hours,
                    extra_hours_50 |-> maybe_redondear_extras(c, b.extra50),
                    extra_hours_100 |-> maybe_redondear_extras(c, b.extra100),
                    extra_hours_150 |-> 0,
                    night_hours |-> maybe_redondear_extras(c, night_hours),
                    holiday_hours |-> maybe_redondear_extras(c, holiday_hours),
                    pending_hours |-> IF ~(has_time_off \/ has_absence) THEN pending ELSE 0,
                    tardanza_horas |-> minutos_a_horas(tardanza_mins),
                    retiro_anticipado_horas |-> minutos_a_horas(retiro_mins),
                    is_holiday |-> is_holiday_api,
                    is_rest_day |-> is_rest_day,
                    has_time_off |-> has_time_off,
                    has_absence |-> has_absence,
                    is_full_time |-> hours_worked >= regular_hours,
                    shift_start |-> shift_start,
                    shift_end |-> shift_end,
                    time_range |-> time_range,
                    extra_hours_day |-> maybe_redondear_extras(c, extra_day),
                    extra_hours_night |-> maybe_redondear_extras(c, extra_night),
                    extra_night_hours_50 |-> maybe_redondear_extras(c, b.extra_night_hours_50),
                    extra_night_hours_100 |-> maybe_redondear_extras(c, b.extra_night_hours_100),
                    holiday_night_hours |-> maybe_redondear_extras(c, holiday_night) ] ]

\* variant: the carried-over pending hours are not taken into the totals
initial_totals_unseeded(previous) ==
    [ total_days_worked |-> 0, total_hours_worked |-> 0, total_regular_hours |-> 0,
      total_extra_hours_50 |-> 0, total_extra_hours_100 |-> 0, total_night_hours |-> 0,
      total_holiday_hours |-> 0, total_pending_hours |-> 0,
      total_tardanza_horas |-> 0, total_retiro_anticipado_horas |-> 0,
      total_extra_day_hours |-> 0, total_extra_night_hours |-> 0,
      total_extra_night_hours_50 |-> 0, total_extra_night_hours_100 |-> 0,
      total_holiday_night_hours |-> 0 ]

\* the totals dictionary at the start of process_employee_data
initial_totals(previous) ==
    [ total_days_worked |-> 0, total_hours_worked |-> 0, total_regular_hours |-> 0,
      total_extra_hours_50 |-> 0, total_extra_hours_100 |-> 0, total_night_hours |-> 0,
      total_holiday_hours |-> 0, total_pending_hours |-> previous,
      total_tardanza_horas |-> 0, total_retiro_anticipado_horas |-> 0,
      total_extra_day_hours |-> 0, total_extra_night_hours |-> 0,
      total_extra_night_hours_50 |-> 0, total_extra_night_hours_100 |-> 0,
      total_holiday_night_hours |-> 0 ]

\* variant: the pending total is assigned the day's pending hours instead
\* of being increased by them
accumulate_pending_asignado(t, it) ==
    LET d == it.day
    IN  [ total_days_worked |-> t.total_days_worked + 1,
          total_hours_worked |-> t.total_hours_worked + d.hours_worked,
          total_regular_hours |-> t.total_regular_hours + d.regular_hours,
          total_extra_hours_50 |-> t.total_extra_hours_50 + d.extra_hours_50,
          total_extra_hours_100 |-> t.total_extra_hours_100 + d.extra_hours_100,
          total_night_hours |-> t.total_night_hours + d.night_hours,
          total_holiday_hours |-> t.total_holiday_hours + d.holiday_hours,
          total_pending_hours |->
              (IF ~d.has_time_off /\ ~d.has_absence THEN it.pending
               ELSE t.total_pending_hours),
          total_tardanza_horas |-> t.total_tardanza_horas + d.tardanza_horas,
          total_retiro_anticipado_horas |->
              t.total_retiro_anticipado_horas + d.retiro_anticipado_horas,
          total_extra_day_hours |-> t.total_extra_day_hours + d.extra_hours_day,
          total_extra_night_hours |-> t.total_extra_night_hours + d.extra_hours_night,
          total_extra_night_hours_50 |->
              t.total_extra_night_hours_50 + d.extra_night_hours_50,
          total_extra_night_hours_100 |->
              t.total_extra_night_hours_100 + d.extra_night_hours_100,
          total_holiday_night_hours |->
              t.total_holiday_night_hours + d.holiday_night_hours ]

\* "Acumulo totales": the totals after one emitted day
accumulate(t, it) ==
    LET d == it.day
    IN  [ total_days_worked |-> t.total_days_worked + 1,
          total_hours_worked |-> t.total_hours_worked + d.hours_worked,
          total_regular_hours |-> t.total_regular_hours + d.regular_hours,
          total_extra_hours_50 |-> t.total_extra_hours_50 + d.extra_hours_50,
          total_extra_hours_100 |-> t.total_extra_hours_100 + d.extra_hours_100,
          total_night_hours |-> t.total_night_hours + d.night_hours,
          total_holiday_hours |-> t.total_holiday_hours + d.holiday_hours,
          total_pending_hours |-> t.total_pending_hours
              + (IF ~d.has_time_off /\ ~d.has_absence THEN it.pending ELSE 0),
          total_tardanza_horas |-> t.total_tardanza_horas + d.tardanza_horas,
          total_retiro_anticipado_horas |->
              t.total_retiro_anticipado_horas + d.retiro_anticipado_horas,
          total_extra_day_hours |-> t.total_extra_day_hours + d.extra_hours_day,
          total_extra_night_hours |-> t.total_extra_night_hours + d.extra_hours_night,
          total_extra_night_hours_50 |->
              t.total_extra_night_hours_50 + d.extra_night_hours_50,
          total_extra_night_hours_100 |->
              t.total_extra_night_hours_100 + d.extra_night_hours_100,
          total_holiday_night_hours |->
              t.total_holiday_night_hours + d.holiday_night_hours ]

----------------------------------------------------------------------------
(* Inputs: the configurations and the day records the runs draw from *)

\* the longest period processed with the records of Typical
MaxDays == 2

\* the largest hour value, in minutes, given to the rounding harness
MaxRoundMinutes == 240

\* reference dates: a Friday, a Saturday and a Sunday
RefDates == {11, 12, 13}

\* self.* after __init__ for the values of DEFAULT_CONFIG explored: each
\* flag either way with the cut-off 30 or 45 and the Saturday boundary 13,
\* then the cut-off 15 and the Saturday boundary 12
Configs ==
    [ jornada_completa : {H(8)},
      hora_nocturna_inicio : {21},
      hora_nocturna_fin : {6},
      sabado_limite : {13},
      fragmento_minutos : {30, 45},
      redondear_extras : BOOLEAN,
      restar_llegada_anticipada_de_horas_extras : BOOLEAN ]
    \cup
    [ jornada_completa : {H(8)},
      hora_nocturna_inicio : {21},
      hora_nocturna_fin : {6},
      sabado_limite : {13},
      fragmento_minutos : {15},
      redondear_extras : {TRUE},
      restar_llegada_anticipada_de_horas_extras : {TRUE} ]
    \cup
    [ jornada_completa : {H(8)},
      hora_nocturna_inicio : {21},
      hora_nocturna_fin : {6},
      sabado_limite : {12},
      fragmento_minutos : {30},
      redondear_extras : {FALSE},
      restar_llegada_anticipada_de_horas_extras : {FALSE} ]

\* fragmento_minutos values given to the rounding harness
FragmentoChoices == {0, 1, 15, 29, 30, 31, 45, 59, 60}

PreviousPending == {0, H(2)}

TS(kind, date, hh, mm) == [kind |-> kind, date |-> date, min |-> hh * 60 + mm]

NoTS == [kind |-> "none", date |-> 0, min |-> 0]

BadTS == [kind |-> "bad", date |-> 0, min |-> 0]

Start(ts) == [type |-> "START", time |-> ts]

End(ts) == [type |-> "END", time |-> ts]

SlotTime(hh, mm) == [present |-> TRUE, ok |-> TRUE, min |-> hh * 60 + mm]

BadSlotTime == [present |-> TRUE, ok |-> FALSE, min |-> 0]

EmptySlotTime == [present |-> FALSE, ok |-> FALSE, min |-> 0]

Slot(a, b) == << [startTime |-> a, endTime |-> b] >>

Cat(name, minutes) == [name |-> name, hours |-> 5 * minutes, numeric |-> TRUE]

\* an entry whose hours are not a whole number of minutes
CatTicks(name, ticks) == [name |-> name, hours |-> ticks, numeric |-> TRUE]

BadCat(name) == [name |-> name, hours |-> 0, numeric |-> FALSE]

DateRef(d) == [kind |-> "date", date |-> d]

NoRef == [kind |-> "none", date |-> 0]

BadRef == [kind |-> "bad", date |-> 0]

\* a day record
DS(ref, alt, workday, hol, off, inc, slots, entries, cats, worked, total) ==
    [ referenceDate |-> ref, date |-> alt, isWorkday |-> workday,
      holidays |-> hol, timeOffRequests |-> off, incidences |-> inc,
      timeSlots |-> slots, entries |-> entries, categorizedHours |-> cats,
      worked |-> worked, totalHours |-> total ]

\* punch lists of a record whose reference date is d
PunchLists(d) ==
    { << >>,
      << Start(TS("naive", d, 8, 0)) >>,
      << End(TS("naive", d, 17, 0)) >>,
      << Start(TS("naive", d, 8, 0)), End(TS("naive", d, 17, 0)) >>,
      << Start(TS("naive", d, 8, 0)), End(TS("naive", d, 2, 0)) >>,
      << Start(TS("naive", d, 8, 0)), End(TS("naive", d + 1, 2, 0)) >>,
      << Start(TS("naive", d, 8, 0)), End(TS("naive", d, 8, 0)) >>,
      << Start(TS("naive", d, 20, 0)), End(TS("naive", d, 23, 0)) >>,
      << Start(TS("naive", d, 20, 0)), End(TS("naive", d, 21, 20)) >>,
      << Start(TS("naive", d, 22, 0)), End(TS("naive", d + 1, 1, 0)) >>,
      << Start(TS("naive", d, 1, 0)), End(TS("naive", d, 5, 0)) >>,
      << Start(TS("naive", d, 8, 0)), End(TS("naive", d - 2, 20, 0)) >>,
      << Start(TS("naive", d, 8, 0)), End(TS("naive", d - 1, 6, 0)) >>,
      << Start(BadTS), End(TS("naive", d, 17, 0)) >>,
      << Start(TS("naive", d, 8, 0)), End(BadTS) >>,
      << Start(TS("utc", d, 11, 0)), End(TS("utc", d, 20, 0)) >>,
      << Start(TS("utc", d + 1, 1, 0)), End(TS("utc", d + 1, 4, 30)) >>,
      << Start(TS("naive", d, 8, 0)), End(TS("naive", d, 12, 0)),
         Start(TS("naive", d, 13, 0)), End(TS("naive", d, 17, 0)) >>,
      << End(TS("naive", d, 16, 30)), Start(NoTS), Start(TS("naive", d, 8, 40)) >>,
      << Start(TS("naive", d, 8, 0)), End(TS("naive", d, 15, 0)) >> }

\* scheduled slots
SlotLists ==
    { << >>,
      Slot(SlotTime(9, 0), SlotTime(17, 0)),
      Slot(SlotTime(8, 0), SlotTime(23, 0)),
      Slot(BadSlotTime, SlotTime(17, 0)),
      Slot(SlotTime(9, 0), BadSlotTime),
      Slot(EmptySlotTime, SlotTime(17, 0)) }

\* records that vary the flags, the reference date and the presence of data
FlagRecords ==
    { DS(rf[1], rf[2], w, hol, off, inc, sl, en,
         << Cat("REGULAR", 360) >>, H(6), 0) :
        rf  \in { <<DateRef(11), NoRef>>, <<NoRef, DateRef(12)>>,
                  <<NoRef, NoRef>>, <<BadRef, NoRef>> },
        w   \in BOOLEAN,
        hol \in { << >>, << "Navidad" >> },
        off \in { << >>, << "Vacaciones" >> },
        inc \in { << >>, << "LATE" >>, << "LATE", "ABSENT" >> },
        sl  \in { << >>, Slot(SlotTime(9, 0), SlotTime(17, 0)) },
        en  \in { << >>, << Start(TS("naive", 11, 9, 5)), End(TS("naive", 11, 16, 0)) >> } }

\* records that vary the punches against the schedule
PunchRecordsOn(d) ==
    { DS(DateRef(d), NoRef, TRUE, hol, << >>, << >>, sl, en,
         << Cat("REGULAR", 480), Cat("EXTRA", 60) >>, wk[1], wk[2]) :
        hol \in { << >>, << "Feriado" >> },
        sl  \in SlotLists,
        en  \in PunchLists(d),
        wk  \in { <<H(9), 0>>, <<0, H(1)>> } }

PunchRecords == UNION { PunchRecordsOn(d) : d \in RefDates }

\* records that vary the categorized hours
OvertimeRecordsOn(d) ==
    { DS(DateRef(d), NoRef, TRUE, << >>, << >>, << >>, sl, en, cats, H(9), 0) :
        sl   \in { << >>, Slot(SlotTime(9, 0), SlotTime(17, 0)) },
        en   \in { << >>,
                   << Start(TS("naive", d, 8, 0)), End(TS("naive", d, 15, 0)) >>,
                   << Start(TS("naive", d, 8, 40)), End(TS("naive", d, 17, 30)) >>,
                   << Start(TS("naive", d, 12, 30)), End(TS("naive", d, 15, 0)) >>,
                   << Start(TS("naive", d, 16, 0)), End(TS("naive", d, 15, 0)) >>,
                   << Start(TS("naive", d, 20, 0)), End(TS("naive", d, 21, 20)) >>,
                   << Start(TS("naive", d, 19, 0)), End(TS("naive", d + 1, 0, 30)) >> },
        cats \in { << Cat("REGULAR", r), Cat("EXTRA", e) >> :
                       r \in {0, 420, 450, 480, 540}, e \in {0, 30, 48, 60, 72, 80, 110, 180} }
                 \cup { << Cat("regular", 240), Cat("Regular", 100), Cat("REGULAR", 240),
                           Cat("extra", 60), Cat("EXTRA", 30), Cat("NIGHT", 45) >>,
                        << Cat("REGULAR", 480), BadCat("EXTRA") >>,
                        << Cat("REGULAR", -60), Cat("EXTRA", -30) >>,
                        << Cat("REGULAR", 480), CatTicks("EXTRA", 299) >>,
                        << >> } }

OvertimeRecords == UNION { OvertimeRecordsOn(d) : d \in RefDates }

\* the records of a single-day period
DayRecords == FlagRecords \cup PunchRecords \cup OvertimeRecords

\* the records of the multi-day periods
Typical ==
    { DS(DateRef(11), NoRef, TRUE, << >>, << >>, << >>,
         Slot(SlotTime(9, 0), SlotTime(17, 0)),
         << Start(TS("naive", 11, 9, 10)), End(TS("naive", 11, 16, 45)) >>,
         << Cat("REGULAR", 455) >>, 455 * 5, 0),
      DS(DateRef(11), NoRef, TRUE, << >>, << >>, << >>,
         Slot(SlotTime(14, 0), SlotTime(22, 0)),
         << Start(TS("naive", 11, 13, 50)), End(TS("naive", 11, 23, 40)) >>,
         << Cat("REGULAR", 480), Cat("EXTRA", 110) >>, 590 * 5, 0),
      DS(DateRef(12), NoRef, TRUE, << >>, << >>, << >>, << >>,
         << Start(TS("naive", 12, 8, 0)), End(TS("naive", 12, 15, 0)) >>,
         << Cat("REGULAR", 240), Cat("EXTRA", 180) >>, H(7), 0),
      DS(DateRef(13), NoRef, FALSE, << "Feriado" >>, << >>, << >>, << >>,
         << Start(TS("naive", 13, 20, 0)), End(TS("naive", 14, 2, 0)) >>,
         << Cat("EXTRA", 360) >>, H(6), 0),
      DS(DateRef(11), NoRef, TRUE, << >>, << "Licencia" >>, << >>, << >>, << >>,
         << Cat("REGULAR", 240) >>, 0, H(4)),
      DS(DateRef(11), NoRef, TRUE, << >>, << >>, << "ABSENT" >>,
         Slot(SlotTime(9, 0), SlotTime(17, 0)), << >>, << >>, 0, 0),
      DS(DateRef(13), NoRef, FALSE, << >>, << >>, << >>, << >>, << >>, << >>, 0, 0),
      DS(NoRef, NoRef, TRUE, << >>, << >>, << >>, << >>, << >>,
         << Cat("REGULAR", 480) >>, H(8), 0) }

\* sequences over S of length 0..n
RECURSIVE SeqsUpTo(_, _)
SeqsUpTo(S, n) ==
    IF n = 0 THEN { << >> }
    ELSE LET shorter == SeqsUpTo(S, n - 1)
         IN  shorter \cup { Append(q, x) : q \in shorter, x \in S }

\* the day_summaries arguments explored
Periods == { << ds >> : ds \in DayRecords } \cup SeqsUpTo(Typical, MaxDays)

----------------------------------------------------------------------------
(* process_employee_data as a state machine *)

Idle == [n |-> 0, horas |-> 0, once |-> 0, twice |-> 0]

NoLocals == [outcome |-> "none"]

NoInvocations == [calls |-> << >>, acc |-> << >>]

Init ==
    /\ calc \in Configs
    /\ day_summaries \in Periods
    /\ previous_pending_hours \in PreviousPending
    /\ pc = "loop"
    /\ i = 0
    /\ daily_data = << >>
    /\ totals = initial_totals(previous_pending_hours)
    /\ loc = NoLocals
    /\ rnd = Idle
    /\ inv = NoInvocations

Current == day_summaries[i + 1]

\* strptime(ref_str, '%Y-%m-%d') or float(hours) raises
raises(ds) ==
    \/ get_ref_str(ds).kind = "bad"
    \/ hours_not_numeric(ds.categorizedHours)

\* `continue` on an empty rest day
SkipRestDay ==
    /\ pc = "loop" /\ i < Len(day_summaries)
    /\ is_empty_rest_day(Current)
    /\ i' = i + 1
    /\ loc' = [outcome |-> "skip_rest", ds |-> Current]
    /\ UNCHANGED <<calc, day_summaries, previous_pending_hours, pc, daily_data,
                   totals, rnd, inv>>

\* `continue` on a record without a reference date
SkipNoRef ==
    /\ pc = "loop" /\ i < Len(day_summaries)
    /\ ~is_empty_rest_day(Current)
    /\ get_ref_str(Current).kind = "none"
    /\ i' = i + 1
    /\ loc' = [outcome |-> "skip_noref", ds |-> Current]
    /\ UNCHANGED <<calc, day_summaries, previous_pending_hours, pc, daily_data,
                   totals, rnd, inv>>

\* an exception leaves process_employee_data
Raise ==
    /\ pc = "loop" /\ i < Len(day_summaries)
    /\ ~is_empty_rest_day(Current)
    /\ get_ref_str(Current).kind # "none"
    /\ raises(Current)
    /\ pc' = "raised"
    /\ loc' = [outcome |-> "raise", ds |-> Current]
    /\ UNCHANGED <<calc, day_summaries, previous_pending_hours, i, daily_data,
                   totals, rnd, inv>>

\* the rest of the loop body: one ProcessedDay appended, the totals updated
EmitDay ==
    /\ pc = "loop" /\ i < Len(day_summaries)
    /\ ~is_empty_rest_day(Current)
    /\ get_ref_str(Current).kind = "date"
    /\ ~raises(Current)
    /\ LET it == iteration(calc, Current)
       IN  /\ daily_data' = Append(daily_data, it.day)
           /\ totals' = accumulate(totals, it)
           /\ loc' = [outcome |-> "emit", ds |-> Current, it |-> it]
    /\ i' = i + 1
    /\ UNCHANGED <<calc, day_summaries, previous_pending_hours, pc, rnd, inv>>

\* return {'employee_info', 'daily_data', 'totals'}
Return ==
    /\ pc = "loop" /\ i = Len(day_summaries)
    /\ pc' = "done"
    /\ UNCHANGED <<calc, day_summaries, previous_pending_hours, i, daily_data,
                   totals, loc, rnd, inv>>

Next == SkipRestDay \/ SkipNoRef \/ Raise \/ EmitDay \/ Return

Spec == Init /\ [][Next]_vars

----------------------------------------------------------------------------
(* redondear_extras_a_media_hora applied to a value and to its own result *)

InitRound ==
    /\ calc \in [ jornada_completa : {H(8)},
                  hora_nocturna_inicio : {21},
                  hora_nocturna_fin : {6},
                  sabado_limite : {13},
                  fragmento_minutos : FragmentoChoices,
                  redondear_extras : {TRUE},
                  restar_llegada_anticipada_de_horas_extras : {TRUE} ]
    /\ day_summaries = << >>
    /\ previous_pending_hours = 0
    /\ pc = "round"
    /\ i = 0
    /\ daily_data = << >>
    /\ totals = initial_totals(0)
    /\ loc = NoLocals
    /\ inv = NoInvocations
    /\ \E m \in 0..MaxRoundMinutes :
          rnd = [n |-> 0, horas |-> minutos_a_horas(m), once |-> 0, twice |-> 0]

RoundOnce ==
    /\ pc = "round" /\ rnd.n = 0
    /\ rnd' = [rnd EXCEPT !.n = 1,
                 !.once = redondear_extras_a_media_hora(calc.fragmento_minutos, rnd.horas)]
    /\ UNCHANGED <<calc, day_summaries, previous_pending_hours, pc, i, daily_data,
                   totals, loc, inv>>

RoundTwice ==
    /\ pc = "round" /\ rnd.n = 1
    /\ rnd' = [rnd EXCEPT !.n = 2,
                 !.twice = redondear_extras_a_media_hora(calc.fragmento_minutos, rnd.once)]
    /\ UNCHANGED <<calc, day_summaries, previous_pending_hours, pc, i, daily_data,
                   totals, loc, inv>>

NextRound == RoundOnce \/ RoundTwice

SpecRound == InitRound /\ [][NextRound]_vars

----------------------------------------------------------------------------
(* Two calls of process_employee_data in flight on one calculator, as when *)
(* a caller processes employees from several threads.  A call's position   *)
(* and arguments are inv.calls[k]; daily_data and totals are the objects   *)
(* the call created at its start, inv.acc[accumulator_of(k)].              *)

\* the longest period given to each of the two calls
MaxPairDays == 2

\* the records the two calls draw their periods from
PairRecords ==
    { DS(DateRef(11), NoRef, TRUE, << >>, << >>, << >>,
         Slot(SlotTime(14, 0), SlotTime(22, 0)),
         << Start(TS("naive", 11, 13, 50)), End(TS("naive", 11, 23, 40)) >>,
         << Cat("REGULAR", 480), Cat("EXTRA", 110) >>, 590 * 5, 0),
      DS(DateRef(12), NoRef, TRUE, << >>, << >>, << >>, << >>,
         << Start(TS("naive", 12, 8, 0)), End(TS("naive", 12, 15, 0)) >>,
         << Cat("REGULAR", 240), Cat("EXTRA", 180) >>, H(7), 0),
      DS(BadRef, NoRef, TRUE, << >>, << >>, << >>, << >>, << >>,
         << Cat("REGULAR", 480) >>, H(8), 0) }

PairPeriods == SeqsUpTo(PairRecords, MaxPairDays)

\* the arguments and the loop position of a call at its start
new_call(days, previous) ==
    [day_summaries |-> days, previous_pending_hours |-> previous, pc |-> "loop", i |-> 0]

\* daily_data and totals as created at the start of a call
new_accumulator(previous) ==
    [daily_data |-> << >>, totals |-> initial_totals(previous)]

\* variant: the accumulator is kept on the calculator and shared by the calls
accumulator_on_calculator(k) == 1

\* daily_data and totals are locals: call k works on the objects it created
accumulator_of(k) == k

InitPair ==
    /\ calc \in Configs
    /\ day_summaries = << >>
    /\ previous_pending_hours = 0
    /\ pc = "pair"
    /\ i = 0
    /\ daily_data = << >>
    /\ totals = initial_totals(0)
    /\ loc = NoLocals
    /\ rnd = Idle
    /\ \E d1 \in PairPeriods, d2 \in PairPeriods :
          inv = [calls |-> << new_call(d1, 0), new_call(d2, H(2)) >>,
                 acc   |-> << new_accumulator(0), new_accumulator(H(2)) >>]

\* one pass of the loop body of call k: skip, raise or emit
CallIterate(k) ==
    /\ pc = "pair"
    /\ inv.calls[k].pc = "loop" /\ inv.calls[k].i < Len(inv.calls[k].day_summaries)
    /\ LET ds == inv.calls[k].day_summaries[inv.calls[k].i + 1]
           a  == accumulator_of(k)
       IN  IF is_empty_rest_day(ds) \/ get_ref_str(ds).kind = "none"
           THEN inv' = [inv EXCEPT !.calls[k].i = @ + 1]
           ELSE IF raises(ds)
           THEN inv' = [inv EXCEPT !.calls[k].pc = "raised"]
           ELSE LET it == iteration(calc, ds)
                IN  inv' = [inv EXCEPT !.calls[k].i = @ + 1,
                                       !.acc[a].daily_data = Append(@, it.day),
                                       !.acc[a].totals = accumulate(@, it)]
    /\ UNCHANGED <<calc, day_summaries, previous_pending_hours, pc, i, daily_data,
                   totals, loc, rnd>>

\* call k returns its daily_data and totals
CallReturn(k) ==
    /\ pc = "pair"
    /\ inv.calls[k].pc = "loop" /\ inv.calls[k].i = Len(inv.calls[k].day_summaries)
    /\ inv' = [inv EXCEPT !.calls[k].pc = "done"]
    /\ UNCHANGED <<calc, day_summaries, previous_pending_hours, pc, i, daily_data,
                   totals, loc, rnd>>

NextPair == \E k \in {1, 2} : CallIterate(k) \/ CallReturn(k)

SpecPair == InitPair /\ [][NextPair]_vars

----------------------------------------------------------------------------
(* The same two calls, the second given the records of the first in        *)
(* another order                                                           *)

\* the longest period given to the first call
MaxPermDays == 2

\* the records the first call draws its period from
PermRecords ==
    { DS(DateRef(11), NoRef, TRUE, << >>, << >>, << >>,
         Slot(SlotTime(9, 0), SlotTime(17, 0)),
         << Start(TS("naive", 11, 9, 10)), End(TS("naive", 11, 16, 45)) >>,
         << Cat("REGULAR", 455) >>, 455 * 5, 0),
      DS(DateRef(11), NoRef, TRUE, << >>, << >>, << >>,
         Slot(SlotTime(14, 0), SlotTime(22, 0)),
         << Start(TS("naive", 11, 13, 50)), End(TS("naive", 11, 23, 40)) >>,
         << Cat("REGULAR", 480), Cat("EXTRA", 110) >>, 590 * 5, 0),
      DS(DateRef(11), NoRef, TRUE, << >>, << "Licencia" >>, << >>, << >>, << >>,
         << Cat("REGULAR", 240) >>, 0, H(4)),
      DS(BadRef, NoRef, TRUE, << >>, << >>, << >>, << >>, << >>,
         << Cat("REGULAR", 480) >>, H(8), 0) }

PermPeriods == SeqsUpTo(PermRecords, MaxPermDays)

\* the orders in which the records of `days` can be handed over
Permuted(days) ==
    { [j \in 1..Len(days) |-> days[p[j]]] : p \in Permutations(1..Len(days)) }

InitPerm ==
    /\ calc \in Configs
    /\ day_summaries = << >>
    /\ previous_pending_hours = 0
    /\ pc = "pair"
    /\ i = 0
    /\ daily_data = << >>
    /\ totals = initial_totals(0)
    /\ loc = NoLocals
    /\ rnd = Idle
    /\ \E d1 \in PermPeriods :
          \E d2 \in Permuted(d1), previous \in PreviousPending :
              inv = [calls |-> << new_call(d1, 0), new_call(d2, previous) >>,
                     acc   |-> << new_accumulator(0), new_accumulator(previous) >>]

SpecPerm == InitPerm /\ [][NextPair]_vars

----------------------------------------------------------------------------
(* Properties *)

Emitted == loc.outcome = "emit"

\* C1: tardiness, early departure, early arrival and pending hours of every
\* emitted day are >= 0; the tardiness and early-departure totals are >= 0
\* and total_pending_hours is >= previous_pending_hours after any sequence
\* of records.
C1_Clamping ==
    /\ Emitted =>
          /\ loc.it.tardanza_mins >= 0
          /\ loc.it.retiro_mins >= 0
          /\ loc.it.llegada_anticipada_mins >= 0
          /\ loc.it.pending >= 0
    /\ \A k \in 1..Len(daily_data) :
          /\ daily_data[k].tardanza_horas >= 0
          /\ daily_data[k].retiro_anticipado_horas >= 0
          /\ daily_data[k].pending_hours >= 0
    /\ totals.total_tardanza_horas >= 0
    /\ totals.total_retiro_anticipado_horas >= 0
    /\ totals.total_pending_hours >= previous_pending_hours

\* a second day whose punch-in precedes the scheduled start and whose
\* punch-out follows the scheduled end, after a day with tardiness
C1_Witness ==
    /\ Emitted /\ Len(daily_data) = 2
    /\ loc.it.day.time_range.present
    /\ loc.it.day.shift_start.hasTime
    /\ loc.it.day.shift_start.hhmm < loc.it.day.time_range.start.min
    /\ loc.it.day.shift_end.hhmm > loc.it.day.time_range.end.min
    /\ loc.it.tardanza_mins = 0 /\ loc.it.retiro_mins = 0
    /\ totals.total_tardanza_horas > 0
    /\ totals.total_pending_hours > previous_pending_hours

\* the six conditions of the skip rule, read off the record
C2_EmptyRestDay(ds) ==
    /\ ds.isWorkday = FALSE
    /\ Len(ds.holidays) = 0
    /\ Len(ds.timeOffRequests) = 0
    /\ \A k \in 1..Len(ds.incidences) : ds.incidences[k] # "ABSENT"
    /\ Len(ds.timeSlots) = 0
    /\ Len(ds.entries) = 0

C3_RawStart(ds) == parse_iso_to_local(first_iso(ds.entries, "START"))

C3_RawEnd(ds) == parse_iso_to_local(first_iso(ds.entries, "END"))

\* C3: when the first END is <= the first START, 24 hours are added to the
\* end; a START at 08:00 with an END at 02:00 (written with the START's date
\* or the next) yields a work interval of exactly 18 hours.
C3_MidnightCrossing ==
    Emitted /\ C3_RawStart(loc.ds).ok /\ C3_RawEnd(loc.ds).ok =>
        LET s  == C3_RawStart(loc.ds).t
            e  == C3_RawEnd(loc.ds).t
            iv == loc.it.intervals
        IN  /\ Len(iv) = 1
            /\ iv[1].start = s
            /\ e <= s => iv[1].end = e + 24 * 60
            /\ e > s  => iv[1].end = e
            /\ ( /\ s % MinutesPerDay = 8 * 60
                 /\ e % MinutesPerDay = 2 * 60
                 /\ e \div MinutesPerDay \in {s \div MinutesPerDay, s \div MinutesPerDay + 1} )
               => iv[1].end - iv[1].start = 18 * 60

\* START 08:00 and END 02:00 written with the same date: 18 hours
C3_Witness ==
    /\ Emitted
    /\ C3_RawStart(loc.ds).ok /\ C3_RawEnd(loc.ds).ok
    /\ C3_RawStart(loc.ds).t % MinutesPerDay = 8 * 60
    /\ C3_RawEnd(loc.ds).t = C3_RawStart(loc.ds).t - 6 * 60
    /\ loc.it.intervals[1].end - loc.it.intervals[1].start = 18 * 60

\* the minutes of the intervals inside the night window of date d
RECURSIVE C4_Overlap(_, _, _)
C4_Overlap(iv, lo, hi) ==
    IF iv = << >> THEN 0
    ELSE (LET a == IF iv[1].start > lo THEN iv[1].start ELSE lo
              b == IF iv[1].end < hi THEN iv[1].end ELSE hi
          IN  IF b - a > 0 THEN b - a ELSE 0)
         + C4_Overlap(Tail(iv), lo, hi)

C4_WindowOverlap ==
    C4_Overlap(loc.it.intervals,
               loc.it.ref_date * 1440 + calc.hora_nocturna_inicio * 60,
               (loc.it.ref_date + 1) * 1440 + calc.hora_nocturna_fin * 60)

\* a shift 20:00-23:00 on the reference date
C4_Shift20to23 ==
    /\ Len(loc.it.intervals) = 1
    /\ loc.it.intervals[1].start = loc.it.ref_date * 1440 + 20 * 60
    /\ loc.it.intervals[1].end = loc.it.ref_date * 1440 + 23 * 60

\* C4 as stated: the night hours equal the summed overlap exactly.
C4_Original ==
    Emitted => loc.it.pre_night_hours = 5 * C4_WindowOverlap

\* C4 (amended): the night hours of a day are the summed overlap of its work
\* intervals with [D@nightStart, (D+1)@nightEnd), rounded to the nearest
\* hundredth of an hour; 20:00-23:00 with the window 21:00-06:00 gives
\* exactly 2.0; no work interval gives 0.
C4_NightHours ==
    Emitted =>
        LET n == loc.it.pre_night_hours
            d == n - 5 * C4_WindowOverlap
        IN  /\ n % 3 = 0
            /\ d \in {-1, 0, 1}
            /\ C4_Shift20to23 => n = 2 * 300
            /\ loc.it.intervals = << >> => n = 0
            /\ ~calc.redondear_extras => loc.it.day.night_hours = n

\* the shift 20:00-23:00 with 2.0 night hours
C4_Witness ==
    Emitted /\ C4_Shift20to23 /\ loc.it.pre_night_hours = 600

\* a Saturday shift that ends at 15:00, began by 12:00 and has 3 hours of
\* day overtime
C5_Case ==
    /\ Emitted /\ loc.it.dow = 5
    /\ loc.it.day.shift_end.hasTime /\ loc.it.day.shift_end.hhmm = 15 * 60
    /\ loc.it.day.shift_start.hhmm <= 12 * 60
    /\ loc.it.pre_extra_day_hours = 3 * 300

\* C5 as stated: extra50 = 2.0 and extra50 + extra100 = 3.0.
C5_Original ==
    C5_Case => /\ loc.it.pre_extra50 = 2 * 300
               /\ loc.it.pre_extra50 + loc.it.pre_extra100 = 3 * 300

\* C5 (amended): the hour before 13:00 goes to extra50 and the two hours
\* after it to extra100: extra50 = 1.0, extra100 = 2.0, summing to 3.0.
C5_SaturdaySplit ==
    C5_Case => /\ loc.it.pre_extra50 = 1 * 300
               /\ loc.it.pre_extra100 = 2 * 300
               /\ loc.it.day.extra_hours_50 = 1 * 300
               /\ loc.it.day.extra_hours_100 = 2 * 300

C5_Witness ==
    C5_Case /\ loc.it.day.shift_start.hhmm = 8 * 60 /\ loc.it.day.extra_hours_100 = 600

\* a weekday whose regular hours exceed 7.0
C6_Case == Emitted /\ loc.it.dow \in 0..4 /\ loc.it.day.regular_hours > 7 * 300

\* regular hours 8.0, no night overlap, nothing subtracted for early arrival
C6_Plain ==
    /\ C6_Case /\ loc.it.day.regular_hours = 8 * 300
    /\ loc.it.pre_night_hours = 0
    /\ (loc.it.llegada_anticipada_mins = 0
        \/ ~calc.restar_llegada_anticipada_de_horas_extras)

\* C6: on a weekday with regular hours > 7.0 a 50% bucket under 1.0 hour is
\* zero and one of at least 1.0 hour is kept; with regular hours 8.0 and no
\* night overlap 0.8 extra hours give extra50 = 0 and 1.2 extra hours give
\* 1.2 (1.0 with half-hour rounding, the threshold being above 12 minutes).
C6_WeekdayFloor ==
    /\ C6_Case =>
          /\ loc.it.pre_extra50 =
                (IF loc.it.pre_extra_day_hours < 300 THEN 0
                 ELSE loc.it.pre_extra_day_hours)
          /\ loc.it.pre_extra_night_hours_50 =
                (IF loc.it.pre_extra_night_hours < 300 THEN 0
                 ELSE loc.it.pre_extra_night_hours)
          /\ loc.it.pre_extra_day_hours >= 300 =>
                loc.it.day.extra_hours_50 = loc.it.day.extra_hours_day
          /\ loc.it.pre_extra_night_hours >= 300 =>
                loc.it.day.extra_night_hours_50 = loc.it.day.extra_hours_night
    /\ (C6_Plain /\ loc.it.extra_cat = 240) => loc.it.day.extra_hours_50 = 0
    /\ (C6_Plain /\ loc.it.extra_cat = 360 /\ ~calc.redondear_extras)
          => loc.it.day.extra_hours_50 = 360
    /\ (C6_Plain /\ loc.it.extra_cat = 360 /\ calc.redondear_extras
           /\ calc.fragmento_minutos > 12)
          => loc.it.day.extra_hours_50 = 300

\* 1.2 extra hours kept as 1.0 under rounding
C6_Witness ==
    /\ C6_Plain /\ loc.it.extra_cat = 360 /\ calc.redondear_extras
    /\ loc.it.day.extra_hours_50 = 300

\* 0.8 extra hours discarded without rounding
C6_WitnessDiscard ==
    /\ C6_Plain /\ loc.it.extra_cat = 240 /\ ~calc.redondear_extras
    /\ loc.it.pre_extra_day_hours = 240 /\ loc.it.day.extra_hours_50 = 0

\* C7 as stated: rounding twice equals rounding once for every threshold.
C7_Original ==
    rnd.n = 2 => rnd.twice = rnd.once

\* C7 (amended): for every non-negative whole-minute x,
\* redondear_extras_a_media_hora is idempotent when fragmento_minutos is at
\* most 30 (or at least 60, when nothing is ever rounded up).
C7_Idempotent ==
    (rnd.n = 2 /\ (calc.fragmento_minutos <= 30 \/ calc.fragmento_minutos >= 60))
        => rnd.twice = rnd.once

\* 1h50m with the threshold 30: rounded up to 1.5 and left there
C7_Witness ==
    /\ rnd.n = 2 /\ calc.fragmento_minutos = 30
    /\ rnd.horas = 550 /\ rnd.once = 450 /\ rnd.twice = 450

\* C8 as stated: early departure is 0 whenever the displayed punch start and
\* end carry different dates, and max(0, scheduled end - actual end) when
\* they carry the same date.
C8_Original ==
    ( /\ Emitted
      /\ loc.it.day.time_range.present /\ loc.it.day.time_range.end.ok
      /\ loc.it.day.shift_start.hasTime /\ loc.it.day.shift_end.hasTime ) =>
        IF loc.it.day.shift_end.date # loc.it.day.shift_start.date
        THEN loc.it.retiro_mins = 0
        ELSE loc.it.retiro_mins =
                (IF loc.it.day.time_range.end.min > loc.it.day.shift_end.hhmm
                 THEN loc.it.day.time_range.end.min - loc.it.day.shift_end.hhmm
                 ELSE 0)

\* C9 as stated: extra_hours_day + extra_hours_night equals extra_hours
\* within a hundredth of an hour on every emitted day.
C9_Original ==
    \A k \in 1..Len(daily_data) :
        LET d == daily_data[k].extra_hours_day + daily_data[k].extra_hours_night
                 - daily_data[k].extra_hours
        IN  d \in -3..3

\* the sum of field f over the emitted days
RECURSIVE C10_Sum(_, _)
C10_Sum(days, f) ==
    IF days = << >> THEN 0 ELSE Head(days)[f] + C10_Sum(Tail(days), f)

\* the ProcessedDay field each total accumulates
C10_Pairs ==
    { <<"hours_worked", "total_hours_worked">>,
      <<"regular_hours", "total_regular_hours">>,
      <<"extra_hours_50", "total_extra_hours_50">>,
      <<"extra_hours_100", "total_extra_hours_100">>,
      <<"night_hours", "total_night_hours">>,
      <<"holiday_hours", "total_holiday_hours">>,
      <<"pending_hours", "total_pending_hours">>,
      <<"tardanza_horas", "total_tardanza_horas">>,
      <<"retiro_anticipado_horas", "total_retiro_anticipado_horas">>,
      <<"extra_hours_day", "total_extra_day_hours">>,
      <<"extra_hours_night", "total_extra_night_hours">>,
      <<"extra_night_hours_50", "total_extra_night_hours_50">>,
      <<"extra_night_hours_100", "total_extra_night_hours_100">>,
      <<"holiday_night_hours", "total_holiday_night_hours">> }

\* the numeric fields of a ProcessedDay
C10_NumericDayFields ==
    { p[1] : p \in C10_Pairs } \cup {"extra_hours", "extra_hours_150"}

C10_Seed(t) == IF t = "total_pending_hours" THEN previous_pending_hours ELSE 0

C11_Original ==
    Emitted =>
        loc.it.day.pending_hours =
            (IF /\ ~loc.it.day.has_time_off
                /\ ~loc.it.day.has_absence
                /\ loc.it.day.regular_hours < calc.jornada_completa
             THEN calc.jornada_completa - loc.it.day.regular_hours
             ELSE 0)

\* C12 as stated: process_employee_data never raises: for every sequence of
\* day records, malformed reference dates, unparseable timestamps or slot
\* strings and non-numeric categorized hours included, no exception leaves
\* the call and every record is consumed before it returns.
C12_Original ==
    /\ pc # "raised"
    /\ pc = "done" => i = Len(day_summaries)

\* process_employee_data run alone on `days`, records k.. still to consume
RECURSIVE C13_Run(_, _, _, _, _)
C13_Run(c, days, k, dd, t) ==
    IF k > Len(days) THEN [pc |-> "done", daily_data |-> dd, totals |-> t]
    ELSE IF is_empty_rest_day(days[k]) \/ get_ref_str(days[k]).kind = "none"
         THEN C13_Run(c, days, k + 1, dd, t)
    ELSE IF raises(days[k])
         THEN [pc |-> "raised", daily_data |-> dd, totals |-> t]
    ELSE C13_Run(c, days, k + 1, Append(dd, iteration(c, days[k]).day),
                 accumulate(t, iteration(c, days[k])))

C13_Alone(k) ==
    C13_Run(calc, inv.calls[k].day_summaries, 1, << >>,
            initial_totals(inv.calls[k].previous_pending_hours))

\* the result of call k is that of the same call run alone
C13_SameAsAlone ==
    \A k \in DOMAIN inv.calls :
        inv.calls[k].pc \in {"done", "raised"} =>
            /\ inv.calls[k].pc = C13_Alone(k).pc
            /\ inv.calls[k].pc = "done" =>
                  /\ inv.acc[k].daily_data = C13_Alone(k).daily_data
                  /\ inv.acc[k].totals = C13_Alone(k).totals

\* C13: two calls on the same calculator, interleaved record by record,
\* each end as the same call run alone (same daily_data, same totals, or the
\* same exception); no step writes a configuration field of the calculator
\* or an input record.
C13_Independent ==
    /\ []C13_SameAsAlone
    /\ [][ /\ calc' = calc
           /\ \A k \in DOMAIN inv.calls :
                 /\ inv'.calls[k].day_summaries = inv.calls[k].day_summaries
                 /\ inv'.calls[k].previous_pending_hours
                       = inv.calls[k].previous_pending_hours ]_vars

\* the first call has returned two days while the second, given other
\* records, is still between its first and its second record
C13_Witness ==
    /\ pc = "pair"
    /\ inv.calls[1].pc = "done" /\ Len(inv.acc[1].daily_data) = 2
    /\ inv.calls[2].pc = "loop" /\ inv.calls[2].i = 1
    /\ Len(inv.calls[2].day_summaries) = 2
    /\ Len(inv.acc[2].daily_data) = 1
    /\ inv.acc[2].daily_data[1] # inv.acc[1].daily_data[1]

\* C14 as stated: every work interval produced from a record's punches has
\* end >= start, whatever the parseable START and END timestamps are, an
\* END dated more than one day before the START included.
C14_Original ==
    Emitted =>
        \A k \in 1..Len(loc.it.intervals) :
            loc.it.intervals[k].end >= loc.it.intervals[k].start

\* a Saturday whose displayed shift starts and ends on the same date, with
\* day overtime no longer than the shift
C15_Case ==
    /\ Emitted /\ loc.it.dow = 5
    /\ loc.it.day.shift_start.hasTime /\ loc.it.day.shift_end.hasTime
    /\ loc.it.day.shift_end.date = loc.it.day.shift_start.date
    /\ loc.it.day.shift_end.hhmm > loc.it.day.shift_start.hhmm
    /\ loc.it.pre_extra_day_hours > 0
    /\ loc.it.pre_extra_day_hours % 5 = 0
    /\ loc.it.pre_extra_day_hours \div 5
          <= loc.it.day.shift_end.hhmm - loc.it.day.shift_start.hhmm

\* the minutes of the tail block [shiftEnd - extraDayMinutes, shiftEnd)
\* that lie in [lo, hi)
C15_TailIn(lo, hi) ==
    LET e == loc.it.day.shift_end.hhmm
        b == e - loc.it.pre_extra_day_hours \div 5
        x == (IF e < hi THEN e ELSE hi) - (IF b > lo THEN b ELSE lo)
    IN  IF x > 0 THEN x ELSE 0

\* C15 as stated: the Saturday day overtime is split at the configured
\* boundary hour sabado_limite: the part of the tail block before B:00 goes
\* to extra50 and the part at or after B:00 to extra100.
C15_Original ==
    C15_Case =>
        /\ loc.it.pre_extra50 = 5 * C15_TailIn(0, calc.sabado_limite * 60)
        /\ loc.it.pre_extra100 = 5 * C15_TailIn(calc.sabado_limite * 60, 24 * 60)

\* C16: on a Sunday, before the final rounding, the 100% night bucket is
\* the whole night overtime min(extra_hours, night_hours), the 100% bucket
\* the whole day overtime max(0, extra_hours - night overtime), and both 50%
\* buckets are 0, whatever the regular hours are.
C16_Sunday ==
    (Emitted /\ loc.it.dow = 6) =>
        LET night == IF loc.it.day.extra_hours <= loc.it.pre_night_hours
                     THEN loc.it.day.extra_hours ELSE loc.it.pre_night_hours
            day   == IF loc.it.day.extra_hours - night > 0
                     THEN loc.it.day.extra_hours - night ELSE 0
        IN  /\ loc.it.pre_extra_night_hours = night
            /\ loc.it.pre_extra_day_hours = day
            /\ loc.it.pre_extra_night_hours_100 = night
            /\ loc.it.pre_extra100 = day
            /\ loc.it.pre_extra50 = 0
            /\ loc.it.pre_extra_night_hours_50 = 0

\* a Sunday shift 08:00-15:00 with regular hours not above 7.0 and three
\* hours of day overtime, all of them in the 100% bucket
C16_Witness ==
    /\ Emitted /\ loc.it.dow = 6
    /\ loc.it.day.regular_hours <= 7 * 300
    /\ loc.it.day.shift_start.hasTime /\ loc.it.day.shift_start.hhmm = 8 * 60
    /\ loc.it.day.shift_end.hasTime /\ loc.it.day.shift_end.hhmm = 15 * 60
    /\ loc.it.pre_extra_day_hours = 3 * 300
    /\ loc.it.pre_extra100 = 3 * 300

\* C17: on a weekday (Monday to Friday), before the final rounding, both
\* 100% buckets are 0; with regular hours > 7.0 the night overtime is the
\* 50% night bucket and the day overtime the 50% bucket (each kept when it
\* is at least 1.0 hour); with regular hours <= 7.0 all four rate buckets
\* are 0 even if the extra hours are positive.
C17_Weekday ==
    (Emitted /\ loc.it.dow \in 0..4) =>
        /\ loc.it.pre_extra100 = 0
        /\ loc.it.pre_extra_night_hours_100 = 0
        /\ loc.it.day.regular_hours > 7 * 300 =>
              /\ loc.it.pre_extra50 \in {0, loc.it.pre_extra_day_hours}
              /\ loc.it.pre_extra_night_hours_50 \in {0, loc.it.pre_extra_night_hours}
              /\ loc.it.pre_extra_day_hours >= 300 =>
                    loc.it.pre_extra50 = loc.it.pre_extra_day_hours
              /\ loc.it.pre_extra_night_hours >= 300 =>
                    loc.it.pre_extra_night_hours_50 = loc.it.pre_extra_night_hours
        /\ loc.it.day.regular_hours <= 7 * 300 =>
              /\ loc.it.pre_extra50 = 0
              /\ loc.it.pre_extra_night_hours_50 = 0
              /\ loc.it.day.extra_hours_50 = 0
              /\ loc.it.day.extra_hours_100 = 0
              /\ loc.it.day.extra_night_hours_50 = 0
              /\ loc.it.day.extra_night_hours_100 = 0

\* a Friday with exactly 7.0 regular hours and three extra hours, all at
\* night, none of them in a rate bucket
C17_Witness ==
    /\ Emitted /\ loc.it.dow = 4
    /\ loc.it.day.regular_hours = 7 * 300
    /\ loc.it.day.extra_hours = 3 * 300
    /\ loc.it.pre_extra_night_hours = 3 * 300
    /\ loc.it.day.extra_hours_50 = 0
    /\ loc.it.day.extra_night_hours_50 = 0

\* C18 as stated: on a day flagged as holiday the holiday night portion is
\* the day's night-window overlap and the holiday day portion is
\* max(0, hours worked - night portion); on any other day both are 0.
C18_Original ==
    Emitted =>
        IF loc.it.day.is_holiday
        THEN /\ loc.it.pre_holiday_night_hours = loc.it.pre_night_hours
             /\ loc.it.pre_holiday_hours =
                   (IF loc.it.day.hours_worked - loc.it.pre_night_hours > 0
                    THEN loc.it.day.hours_worked - loc.it.pre_night_hours
                    ELSE 0)
        ELSE /\ loc.it.pre_holiday_night_hours = 0
             /\ loc.it.pre_holiday_hours = 0
             /\ loc.it.day.holiday_night_hours = 0
             /\ loc.it.day.holiday_hours = 0

\* half-hour rounding of a value in ticks: the whole hours of the value
\* taken to the minute, plus half an hour when the remaining minutes reach
\* the threshold; the value itself when rounding is disabled
C19_Half(h) ==
    IF ~calc.redondear_extras THEN h
    ELSE IF h <= 0 THEN 0
    ELSE LET m == (h + 2) \div 5
         IN  300 * (m \div 60) + (IF m % 60 >= calc.fragmento_minutos THEN 150 ELSE 0)

\* the extra hours the claim describes: rounding, then the subtraction
\* clamped at zero when it is enabled, then rounding again
C19_Expected ==
    LET r1   == C19_Half(loc.it.extra_cat)
        mins == (r1 + 2) \div 5 - loc.it.llegada_anticipada_mins
    IN  IF calc.restar_llegada_anticipada_de_horas_extras
        THEN C19_Half(5 * (IF mins > 0 THEN mins ELSE 0))
        ELSE C19_Half(r1)

\* the categorized EXTRA hours taken to the whole minute, 0 when negative
C19_ExtraToMinute ==
    IF loc.it.extra_cat <= 0 THEN 0 ELSE 5 * ((loc.it.extra_cat + 2) \div 5)

\* C19 as stated: with the subtraction enabled extra_hours is
\* max(0, extraMinutes - earlyArrivalMinutes) with rounding before and
\* after, never negative and never above the categorized EXTRA hours; with
\* it disabled early arrival does not change extra_hours.
C19_Original ==
    Emitted =>
        /\ loc.it.day.extra_hours = C19_Expected
        /\ calc.restar_llegada_anticipada_de_horas_extras =>
              /\ loc.it.day.extra_hours >= 0
              /\ loc.it.day.extra_hours <= loc.it.extra_cat

\* C19 (amended): as stated, except that extra_hours is bounded by the
\* categorized EXTRA hours taken to the nearest whole minute (0 when they
\* are negative), and only when half-hour rounding is disabled or its
\* threshold is at least 30 minutes.
C19_EarlyArrival ==
    Emitted =>
        /\ loc.it.day.extra_hours = C19_Expected
        /\ ~calc.restar_llegada_anticipada_de_horas_extras =>
              loc.it.day.extra_hours = C19_Half(C19_Half(loc.it.extra_cat))
        /\ calc.restar_llegada_anticipada_de_horas_extras =>
              /\ loc.it.day.extra_hours >= 0
              /\ (~calc.redondear_extras \/ calc.fragmento_minutos >= 30) =>
                    loc.it.day.extra_hours <= C19_ExtraToMinute

\* 20 minutes of early arrival taken off one extra hour
C19_Witness ==
    /\ Emitted
    /\ calc.restar_llegada_anticipada_de_horas_extras /\ ~calc.redondear_extras
    /\ loc.it.llegada_anticipada_mins = 20
    /\ loc.it.extra_cat = 300
    /\ loc.it.day.extra_hours = 200

\* the record about to be consumed has neither referenceDate nor date
C20_NoDate ==
    /\ pc = "loop" /\ i < Len(day_summaries)
    /\ day_summaries[i + 1].referenceDate.kind = "none"
    /\ day_summaries[i + 1].date.kind = "none"

\* C20: a step on a record with no resolvable reference date appends
\* nothing to daily_data, leaves every total (total_days_worked included)
\* unchanged and moves on to the next record.
C20_SkipNoDate ==
    [][ C20_NoDate =>
           /\ daily_data' = daily_data
           /\ totals' = totals
           /\ i' = i + 1
           /\ pc' = "loop" ]_vars

\* a day emitted right after a record without a date was skipped: the
\* totals count that one day only
C20_Witness ==
    /\ Emitted /\ i = 2
    /\ day_summaries[1].referenceDate.kind = "none"
    /\ day_summaries[1].date.kind = "none"
    /\ ~is_empty_rest_day(day_summaries[1])
    /\ Len(daily_data) = 1
    /\ totals.total_days_worked = 1

\* the record has a first START (a first END) whose timestamp parses
C21_HasStart == parse_iso_to_local(first_iso(loc.ds.entries, "START")).ok

C21_HasEnd == parse_iso_to_local(first_iso(loc.ds.entries, "END")).ok

\* C21 as stated: _first_entry_pair_local returns (null, null) whenever the
\* START or the END is missing or unparseable, never a pair with exactly
\* one side set.
C21_Original ==
    Emitted =>
        /\ ~(C21_HasStart /\ C21_HasEnd) =>
              (~loc.it.first_entry_pair[1].ok /\ ~loc.it.first_entry_pair[2].ok)
        /\ loc.it.first_entry_pair[1].ok <=> loc.it.first_entry_pair[2].ok

\* C21 (amended): each side of the pair is null exactly when its own
\* timestamp is missing or unparseable, so a pair may have one side set;
\* the callers treat such a pair as no pair: the displayed shift start and
\* end carry no time and the record yields no work interval.
C21_PairSides ==
    Emitted =>
        /\ loc.it.first_entry_pair[1].ok <=> C21_HasStart
        /\ loc.it.first_entry_pair[2].ok <=> C21_HasEnd
        /\ ~(C21_HasStart /\ C21_HasEnd) =>
              /\ loc.it.intervals = << >>
              /\ ~loc.it.day.shift_start.hasTime
              /\ ~loc.it.day.shift_end.hasTime
              /\ loc.it.pre_night_hours = 0
        /\ (C21_HasStart /\ C21_HasEnd) =>
              /\ Len(loc.it.intervals) = 1
              /\ loc.it.day.shift_start.hasTime
              /\ loc.it.day.shift_end.hasTime

\* a record with a START punch and an unparseable END: the pair has its
\* start set and its end null, and there is no interval
C21_Witness ==
    /\ Emitted
    /\ C21_HasStart /\ ~C21_HasEnd
    /\ first_iso(loc.ds.entries, "END").kind = "bad"
    /\ loc.it.first_entry_pair[1].ok /\ ~loc.it.first_entry_pair[2].ok
    /\ loc.it.intervals = << >>

\* both calls have ended
C22_BothEnded ==
    /\ pc = "pair" /\ Len(inv.calls) = 2
    /\ inv.calls[1].pc \in {"done", "raised"}
    /\ inv.calls[2].pc \in {"done", "raised"}

\* the two lists hold the same ProcessedDay entries, in some order
C22_SameDays(dd1, dd2) ==
    /\ Len(dd1) = Len(dd2)
    /\ \E p \in Permutations(1..Len(dd1)) :
          \A j \in 1..Len(dd1) : dd2[j] = dd1[p[j]]

\* C22: a call given the records of another call in a different order, and
\* any previous_pending_hours, ends the same way; when both return, every
\* total is the same (total_pending_hours once its seed is taken off) and
\* the ProcessedDay entries are the same ones.
C22_OrderIndependent ==
    C22_BothEnded =>
        /\ inv.calls[1].pc = inv.calls[2].pc
        /\ inv.calls[1].pc = "done" =>
              /\ \A f \in DOMAIN inv.acc[1].totals \ {"total_pending_hours"} :
                    inv.acc[2].totals[f] = inv.acc[1].totals[f]
              /\ inv.acc[2].totals.total_pending_hours
                    - inv.calls[2].previous_pending_hours
                 = inv.acc[1].totals.total_pending_hours
                    - inv.calls[1].previous_pending_hours
              /\ C22_SameDays(inv.acc[1].daily_data, inv.acc[2].daily_data)

\* two different days handed over in opposite orders, the second call with
\* a carried-over balance, both returned
C22_Witness ==
    /\ C22_BothEnded
    /\ inv.calls[1].pc = "done" /\ inv.calls[2].pc = "done"
    /\ Len(inv.calls[1].day_summaries) = 2
    /\ inv.calls[2].day_summaries[1] = inv.calls[1].day_summaries[2]
    /\ inv.calls[2].day_summaries[1] # inv.calls[1].day_summaries[1]
    /\ inv.calls[2].previous_pending_hours > 0
    /\ Len(inv.acc[1].daily_data) = 2
    /\ inv.acc[1].daily_data[1].pending_hours # inv.acc[1].daily_data[2].pending_hours
    /\ inv.acc[2].daily_data[1] = inv.acc[1].daily_data[2]

\* an emitted Saturday
C23_Saturday == Emitted /\ loc.it.dow = 5

\* the first punch pair is present
C23_HasPair == loc.it.intervals # << >>

\* extra50 + extra100 before the final rounding
C23_Split == loc.it.pre_extra50 + loc.it.pre_extra100

\* the shift's duration: the length of its work interval, in ticks
C23_Duration == 5 * (loc.it.intervals[1].end - loc.it.intervals[1].start)

\* the length of the shift by the displayed clock times, a day added when
\* the end is not after the start, in ticks
C23_ClockLength ==
    LET s == loc.it.day.shift_start.hhmm
        e == loc.it.day.shift_end.hhmm
    IN  5 * (IF e <= s THEN e + 24 * 60 - s ELSE e - s)

\* the day overtime taken to the nearest whole minute, in ticks
C23_DayOvertimeToMinute == 5 * ((loc.it.pre_extra_day_hours + 2) \div 5)

\* C23 as stated: on a Saturday extra50 + extra100 is at most the day
\* overtime and at most the shift's duration, equals the day overtime
\* exactly when the punch pair is present and the shift lasts at least the
\* day overtime, and both buckets are 0 when the pair is missing.
C23_Original ==
    C23_Saturday =>
        /\ C23_Split <= loc.it.pre_extra_day_hours
        /\ C23_HasPair => C23_Split <= C23_Duration
        /\ loc.it.pre_extra_day_hours > 0 =>
              (C23_Split = loc.it.pre_extra_day_hours
                  <=> (C23_HasPair /\ C23_Duration >= loc.it.pre_extra_day_hours))
        /\ ~C23_HasPair => (loc.it.pre_extra50 = 0 /\ loc.it.pre_extra100 = 0)

\* C23 (amended): on a Saturday with the punch pair present and positive
\* day overtime, extra50 + extra100 is the smaller of the day overtime
\* taken to the nearest minute and the clock length of the shift; both
\* buckets are 0 when the pair is missing or there is no day overtime, and
\* neither is ever negative.
C23_NoHoursCreated ==
    C23_Saturday =>
        /\ loc.it.pre_extra50 >= 0 /\ loc.it.pre_extra100 >= 0
        /\ (C23_HasPair /\ loc.it.pre_extra_day_hours > 0) =>
              /\ C23_Split = (IF C23_DayOvertimeToMinute <= C23_ClockLength
                              THEN C23_DayOvertimeToMinute ELSE C23_ClockLength)
              /\ C23_Split - loc.it.pre_extra_day_hours \in -2..2
                    \/ C23_Split = C23_ClockLength
        /\ (~C23_HasPair \/ loc.it.pre_extra_day_hours <= 0) =>
              (loc.it.pre_extra50 = 0 /\ loc.it.pre_extra100 = 0)

\* a Saturday shift 12:30-15:00 with three hours of day overtime: the
\* buckets hold the two and a half hours of the shift
C23_Witness ==
    /\ C23_Saturday /\ C23_HasPair
    /\ loc.it.day.shift_start.hhmm = 12 * 60 + 30
    /\ loc.it.day.shift_end.hhmm = 15 * 60
    /\ loc.it.pre_extra_day_hours = 3 * 300
    /\ loc.it.pre_extra50 = 150
    /\ loc.it.pre_extra100 = 2 * 300

====
